---- MODULE Spec2Model ----
(***************************************************************************)
(* Wire-format layer of vpncloud: the NodeInfo tagged-field codec          *)
(* (src/messages.rs) and the payload dissectors Frame and Packet           *)
(* (src/payload.rs).                                                       *)
(*                                                                         *)
(* Bytes are naturals 0..255.  Option<T> is a sequence of length 0 (None)  *)
(* or 1 (Some).  Result<T, E> is a record with an ok flag.                 *)
(***************************************************************************)
EXTENDS Integers, Sequences, FiniteSets, TLC

VARIABLES
    node,       \* the NodeInfo handed to encode
    buffer,     \* the MsgBuffer encode writes into: [data, length]
    wire,       \* the bytes handed to NodeInfo::decode
    tamper,     \* how wire was derived from the encoded message
    internal,   \* what decode_internal returned, with the parts it handled
    result,     \* what NodeInfo::decode returned
    pc,         \* position of the run
    cursor,     \* Cursor<&mut [u8]> of the encode_part runs
    parts,      \* the parts written by the encode_part runs
    data,       \* the bytes handed to Protocol::parse
    parsed      \* what Protocol::parse returned

vars == <<node, buffer, wire, tamper, internal, result, pc, cursor, parts, data, parsed>>

----------------------------------------------------------------------------
(* Bounds of the model *)

\* capacity of the MsgBuffer of the codec runs
BufCap == 160
\* peers per NodeInfo, addresses per NodeInfo, claims per NodeInfo
MaxPeers == 2
MaxAddrs == 2
MaxClaims == 2
\* the same for the runs that tamper with the encoded message
WirePeers == 1
WireAddrs == 1
WireClaims == 1
\* longest declared length of an inserted unknown part, most junk bytes
\* appended to a PEER_TIMEOUT part
MaxUnknownLen == 2
MaxJunk == 2
\* addresses of the one peer of the truncation-policy runs
MaxLongAddrs == 9
\* capacity of the slice of the encode_part runs beyond 65536, parts per run
PartSlack == 16
MaxParts == 2
\* trailing bytes of a frame after the two MAC addresses
MaxFrameTail == 6
\* longest packet handed to Packet::parse
MaxPacketLen == 41

----------------------------------------------------------------------------
(* Option, bytes *)

None == <<>>
Some(v) == <<v>>
IsSome(o) == Len(o) = 1
Unwrap(o) == o[1]

\* write_u16::<NetworkEndian>
U16BE(n) == <<(n \div 256) % 256, n % 256>>
\* read_u16::<NetworkEndian>
FromU16BE(b) == b[1] * 256 + b[2]

Fill(n, b) == [i \in 1..n |-> b]

----------------------------------------------------------------------------
(* Program constants *)

PART_CLAIMS == 2
PART_END == 0
PART_PEERS == 1
PART_PEER_TIMEOUT == 3
NODE_ID_BYTES == 16

----------------------------------------------------------------------------
(* std::net::SocketAddr, PeerInfo, NodeInfo *)

V4(ip, port) == [fam |-> 4, ip |-> ip, port |-> port]
V6(ip, port, flowinfo, scope_id) ==
    [fam |-> 6, ip |-> ip, port |-> port, flowinfo |-> flowinfo, scope_id |-> scope_id]
IsV4(a) == a.fam = 4
IsV6(a) == a.fam = 6

PeerInfo(node_id, addrs) == [node_id |-> node_id, addrs |-> addrs]
NodeInfo(peers, claims, peer_timeout) ==
    [peers |-> peers, claims |-> claims, peer_timeout |-> peer_timeout]

----------------------------------------------------------------------------
(* types::Address and types::Range, the collaborators of the codec *)

Address(bytes, len) == [data |-> bytes \o Fill(16 - Len(bytes), 0), len |-> len]

\* Address::read_from_fixed(data, len)
read_from_fixed(bytes, len) ==
    IF len > 16 THEN [ok |-> FALSE, err |-> "Invalid address, too long"]
    ELSE IF Len(bytes) < len THEN [ok |-> FALSE, err |-> "Address too short"]
    ELSE [ok |-> TRUE, val |-> Address(SubSeq(bytes, 1, len), len)]

Range(base, prefix_len) == [base |-> base, prefix_len |-> prefix_len]

\* Range::write_to: the bytes one range record appends to the sink
RangeBytes(c) == <<c.base.len>> \o SubSeq(c.base.data, 1, c.base.len) \o <<c.prefix_len>>

----------------------------------------------------------------------------
(* util::MsgBuffer and std::io::Cursor<&mut [u8]> *)

\* MsgBuffer: a byte region of fixed capacity and a logical length
MsgBuffer(cap, stale) == [data |-> Fill(cap, stale), length |-> 0]
\* MsgBuffer::message: the bytes of the logical length
Message(b) == SubSeq(b.data, 1, b.length)

Cursor(buf) == [buf |-> buf, pos |-> 0, err |-> FALSE]

\* Write::write_all on a cursor over a slice: the bytes that fit are written,
\* and the call fails when some do not.  A failed cursor stays failed: every
\* caller returns at once with `?`.
write_all(c, bytes) ==
    IF c.err \/ Len(bytes) = 0 THEN c
    ELSE IF c.pos + Len(bytes) <= Len(c.buf)
    THEN [buf |-> SubSeq(c.buf, 1, c.pos) \o bytes \o SubSeq(c.buf, c.pos + Len(bytes) + 1, Len(c.buf)),
          pos |-> c.pos + Len(bytes), err |-> FALSE]
    ELSE [buf |-> SubSeq(c.buf, 1, c.pos) \o SubSeq(bytes, 1, Len(c.buf) - c.pos),
          pos |-> Len(c.buf), err |-> TRUE]

write_u8(c, b) == write_all(c, <<b>>)
write_u16(c, n) == write_all(c, U16BE(n))

\* Seek::seek(SeekFrom::Start(p))
seek(c, p) == IF c.err THEN c ELSE [c EXCEPT !.pos = p]

----------------------------------------------------------------------------
(* NodeInfo::encode *)

\* while addr.len() >= 8 { addr.pop(); }
PopExcess_KeepLast(addrs) ==
    IF Len(addrs) >= 8 THEN SubSeq(addrs, Len(addrs) - 6, Len(addrs)) ELSE addrs

PopExcess(addrs) == IF Len(addrs) >= 8 THEN SubSeq(addrs, 1, 7) ELSE addrs

\* the flags byte of a peer, in u8 arithmetic
PeerFlags_Swapped(n6, n4, has_id) == (n4 * 8 + n6 + (IF has_id THEN 128 ELSE 0)) % 256

PeerFlags(n6, n4, has_id) == (n6 * 8 + n4 + (IF has_id THEN 128 ELSE 0)) % 256

\* write_all(&a.ip().octets()); write_u16(a.port())
WriteAddr(out, a) == write_u16(write_all(out, a.ip), a.port)

\* for a in addrs { .. }
RECURSIVE WriteAddrs(_, _)
WriteAddrs(addrs, out) ==
    IF Len(addrs) = 0 THEN out ELSE WriteAddrs(Tail(addrs), WriteAddr(out, Head(addrs)))

\* if let Some(node_id) = &p.node_id { out.write_all(node_id) }
WriteNodeId(p, out) == IF IsSome(p.node_id) THEN write_all(out, Unwrap(p.node_id)) ELSE out

\* the flags byte, the node id, the IPv6 addresses, the IPv4 addresses
WritePeerParts(p, addr_ipv4, addr_ipv6, out) ==
    WriteAddrs(addr_ipv4,
        WriteAddrs(addr_ipv6,
            WriteNodeId(p,
                write_u8(out, PeerFlags(Len(addr_ipv6), Len(addr_ipv4), IsSome(p.node_id))))))

\* one turn of the loop of encode_peer_list_part
WritePeer(p, out) ==
    WritePeerParts(p, PopExcess(SelectSeq(p.addrs, IsV4)), PopExcess(SelectSeq(p.addrs, IsV6)), out)

RECURSIVE encode_peer_list_part(_, _)
encode_peer_list_part(peers, out) ==
    IF Len(peers) = 0 THEN out
    ELSE encode_peer_list_part(Tail(peers), WritePeer(Head(peers), out))

\* for c in &self.claims { c.write_to(&mut cursor); }
RECURSIVE WriteClaims(_, _)
WriteClaims(claims, out) ==
    IF Len(claims) = 0 THEN out
    ELSE WriteClaims(Tail(claims), write_all(out, RangeBytes(Head(claims))))

\* The closures handed to encode_part, as values
PeersWriter(peers) == [kind |-> "peers", peers |-> peers]
ClaimsWriter(claims) == [kind |-> "claims", claims |-> claims]
TimeoutWriter(timeout) == [kind |-> "timeout", timeout |-> timeout]
BytesWriter(n, b) == [kind |-> "bytes", n |-> n, b |-> b]

\* f(cursor)
RunWriter(f, c) ==
    CASE f.kind = "peers" -> encode_peer_list_part(f.peers, c)
      [] f.kind = "claims" -> WriteClaims(f.claims, c)
      [] f.kind = "timeout" -> write_u16(c, f.timeout)
      [] f.kind = "bytes" -> write_all(c, Fill(f.n, f.b))

\* len as u16
CastU16(n) == n % 65536

\* the tail of encode_part, the cursor c at part_end: compute the length,
\* seek back, patch, seek forward
PatchLength_NoSeekForward(c, part_start) ==
    write_u16(seek(c, part_start - 2), CastU16(c.pos - part_start))

PatchLength(c, part_start) ==
    seek(write_u16(seek(c, part_start - 2), CastU16(c.pos - part_start)), c.pos)

\* encode_part from part_start on, the cursor c after the placeholder
EncodePartBody(c, f) == PatchLength(RunWriter(f, c), c.pos)

encode_part(c, part, f) == EncodePartBody(write_u16(write_u8(c, part), 0), f)

\* if let Some(timeout) = self.peer_timeout { encode_part(.., PART_PEER_TIMEOUT, ..) }
EncodeTimeout(self, c) ==
    IF IsSome(self.peer_timeout)
    THEN encode_part(c, PART_PEER_TIMEOUT, TimeoutWriter(Unwrap(self.peer_timeout)))
    ELSE c

\* len = cursor.position(); buffer.set_length(len)
SetLength(buf, c) ==
    IF c.err THEN [ok |-> FALSE, buffer |-> [buf EXCEPT !.data = c.buf]]
    ELSE [ok |-> TRUE, buffer |-> [data |-> c.buf, length |-> c.pos]]

\* a variant that leaves out the CLAIMS part of a node without claims
EncodeClaims_SkipEmpty(self, c) ==
    IF Len(self.claims) > 0 THEN encode_part(c, PART_CLAIMS, ClaimsWriter(self.claims)) ELSE c

EncodeClaims(self, c) == encode_part(c, PART_CLAIMS, ClaimsWriter(self.claims))

EncodePeers(self, c) == encode_part(c, PART_PEERS, PeersWriter(self.peers))

encode_internal(self, buf) ==
    SetLength(buf,
        write_u8(EncodeTimeout(self, EncodeClaims(self, EncodePeers(self, Cursor(buf.data)))),
                 PART_END))

----------------------------------------------------------------------------
(* std::io::Read over the input bytes, and std::io::Take *)

Ok(v, r) == [ok |-> TRUE, val |-> v, r |-> r]
Fail == [ok |-> FALSE]
Err(e) == [ok |-> FALSE, err |-> e]

Reader(bytes) == [bytes |-> bytes, pos |-> 0]

\* Read::read_exact on the byte source: fails when it is exhausted
read_exact(r, n) ==
    IF r.pos + n <= Len(r.bytes)
    THEN Ok(SubSeq(r.bytes, r.pos + 1, r.pos + n), [r EXCEPT !.pos = r.pos + n])
    ELSE Fail

\* Read::take(limit)
Take(r, limit) == [bytes |-> r.bytes, pos |-> r.pos, limit |-> limit]

\* Read::read_exact on a Take: fails when the limit or the byte source is exhausted
take_read_exact(rp, n) ==
    IF n <= rp.limit /\ rp.pos + n <= Len(rp.bytes)
    THEN Ok(SubSeq(rp.bytes, rp.pos + 1, rp.pos + n),
            [rp EXCEPT !.pos = rp.pos + n, !.limit = rp.limit - n])
    ELSE Fail

\* Take::into_inner: the underlying reader, where the Take left it
into_inner(rp) == [bytes |-> rp.bytes, pos |-> rp.pos]

----------------------------------------------------------------------------
(* types::Range::read_from, the range reader *)

AddressTooShort == "Address too short"
AddressTooLong == "Invalid address, too long"
RangeErrors == {AddressTooShort, AddressTooLong}

\* Reads one record: a length byte, the address bytes, the prefix length.
\* Fails with its own parse error on a length over 16 or on missing bytes.
RangeReadPrefix(len, bytes, q) ==
    IF ~q.ok THEN Err(AddressTooShort) ELSE Ok(Range(Address(bytes, len), q.val[1]), q.r)

RangeReadData(len, d) ==
    IF ~d.ok THEN Err(AddressTooShort) ELSE RangeReadPrefix(len, d.val, take_read_exact(d.r, 1))

RangeReadLen(l) ==
    IF ~l.ok THEN Err(AddressTooShort)
    ELSE IF l.val[1] > 16 THEN Err(AddressTooLong)
    ELSE RangeReadData(l.val[1], take_read_exact(l.r, l.val[1]))

RangeRead(rp) == RangeReadLen(take_read_exact(rp, 1))

----------------------------------------------------------------------------
(* NodeInfo::decode *)

has_node_id(flags) == (flags \div 128) % 2 = 1
num_ipv4_addrs(flags) == flags % 8
num_ipv6_addrs(flags) == (flags \div 8) % 8

\* SocketAddr::V6(SocketAddrV6::new(ip, port, 0, 0)), SocketAddr::V4(SocketAddrV4::new(ip, port))
NewAddr(fam, ip, port) == IF fam = 6 THEN V6(ip, port, 0, 0) ELSE V4(ip, port)

\* for _ in 0..n { read_exact(ip); read_u16(port); addrs.push(..) }
RECURSIVE ReadAddrs(_, _, _, _), ReadAddrIp(_, _, _, _), ReadAddrPort(_, _, _, _, _)
ReadAddrPort(ip, port, n, fam, addrs) ==
    IF ~port.ok THEN Fail
    ELSE ReadAddrs(port.r, n - 1, fam, Append(addrs, NewAddr(fam, ip, FromU16BE(port.val))))

ReadAddrIp(ip, n, fam, addrs) ==
    IF ~ip.ok THEN Fail ELSE ReadAddrPort(ip.val, take_read_exact(ip.r, 2), n, fam, addrs)

ReadAddrs(rp, n, fam, addrs) ==
    IF n = 0 THEN Ok(addrs, rp)
    ELSE ReadAddrIp(take_read_exact(rp, IF fam = 6 THEN 16 ELSE 4), n, fam, addrs)

\* one turn of the loop of decode_peer_list_part: the flags, the node id,
\* the IPv6 addresses, the IPv4 addresses, the push
ReadPeerV4(flags, id, a4) ==
    IF ~a4.ok THEN Fail
    ELSE Ok(PeerInfo(IF has_node_id(flags) THEN Some(id) ELSE None, a4.val), a4.r)

ReadPeerV6(flags, id, a6) ==
    IF ~a6.ok THEN Fail
    ELSE ReadPeerV4(flags, id, ReadAddrs(a6.r, num_ipv4_addrs(flags), 4, a6.val))

ReadPeerId(flags, id) ==
    IF ~id.ok THEN Fail
    ELSE ReadPeerV6(flags, id.val, ReadAddrs(id.r, num_ipv6_addrs(flags), 6, <<>>))

ReadPeerFlags(f) ==
    IF ~f.ok THEN Fail
    ELSE ReadPeerId(f.val[1], IF has_node_id(f.val[1]) THEN take_read_exact(f.r, NODE_ID_BYTES)
                                ELSE Ok(<<>>, f.r))

ReadPeer(rp) == ReadPeerFlags(take_read_exact(rp, 1))

RECURSIVE PeerLoop(_, _), PeerLoopPush(_, _)
PeerLoopPush(p, peers) == IF ~p.ok THEN Fail ELSE PeerLoop(p.r, Append(peers, p.val))

PeerLoop(rp, peers) == IF rp.limit > 0 THEN PeerLoopPush(ReadPeer(rp), peers) ELSE Ok(peers, rp)

decode_peer_list_part(rp) == PeerLoop(rp, <<>>)

RECURSIVE ClaimLoop(_, _), ClaimLoopPush(_, _)
ClaimLoopPush(c, claims) == IF ~c.ok THEN c ELSE ClaimLoop(c.r, Append(claims, c.val))

ClaimLoop(rp, claims) == IF rp.limit > 0 THEN ClaimLoopPush(RangeRead(rp), claims) ELSE Ok(claims, rp)

decode_claims_part(rp) == ClaimLoop(rp, <<>>)

\* the arm of an unrecognized tag: read_exact of part_len bytes
SkipUnknown_Nothing(rp, part_len) == take_read_exact(rp, 0)

SkipUnknown(rp, part_len) == take_read_exact(rp, part_len)

\* r.read_u8() of the tag; the variant takes the end of the input for PART_END
ReadTag_EofIsEnd(r) ==
    IF r.pos < Len(r.bytes) THEN read_exact(r, 1) ELSE [ok |-> TRUE, val |-> <<0>>, r |-> r]

ReadTag(r) == read_exact(r, 1)

Truncated == "Truncated message"

\* r = rp.into_inner(): the state of the loop after a part.  st holds peers,
\* claims, peer_timeout and the parts handled so far: tag, declared length,
\* position of the body, position of the reader after the part.
Handled(part, rp, rp2, st2) ==
    [ok |-> TRUE, r |-> into_inner(rp2),
     st |-> [st2 EXCEPT !.handled = Append(@,
               [part |-> part, len |-> rp.limit, body |-> rp.pos, next |-> rp2.pos])]]

\* the arms of the match, d what the part's parser returned
PeersArm(part, rp, st, d) ==
    IF ~d.ok THEN Err(Truncated) ELSE Handled(part, rp, d.r, [st EXCEPT !.peers = d.val])

ClaimsArm(part, rp, st, d) ==
    IF ~d.ok THEN Err(d.err) ELSE Handled(part, rp, d.r, [st EXCEPT !.claims = d.val])

TimeoutArm(part, rp, st, d) ==
    IF ~d.ok THEN Err(Truncated)
    ELSE Handled(part, rp, d.r, [st EXCEPT !.peer_timeout = Some(FromU16BE(d.val))])

UnknownArm(part, rp, st, d) ==
    IF ~d.ok THEN Err(Truncated) ELSE Handled(part, rp, d.r, st)

\* match part { .. } on the bounded region rp
DecodePartBody(part, rp, st) ==
    CASE part = PART_PEERS -> PeersArm(part, rp, st, decode_peer_list_part(rp))
      [] part = PART_CLAIMS -> ClaimsArm(part, rp, st, decode_claims_part(rp))
      [] part = PART_PEER_TIMEOUT -> TimeoutArm(part, rp, st, take_read_exact(rp, 2))
      [] OTHER -> UnknownArm(part, rp, st, SkipUnknown(rp, rp.limit))

\* part_len = r.read_u16(); rp = r.take(part_len)
DecodePartLen(part, l, st) ==
    IF ~l.ok THEN Err(Truncated) ELSE DecodePartBody(part, Take(l.r, FromU16BE(l.val)), st)

DecodePart(part, r, st) == DecodePartLen(part, read_exact(r, 2), st)

\* the loop of decode_internal
RECURSIVE DecodeLoop(_, _), DecodeTag(_, _), DecodeNext(_, _)
DecodeNext(p, st) ==
    IF ~p.ok THEN [ok |-> FALSE, err |-> p.err, handled |-> st.handled]
    ELSE DecodeLoop(p.r, p.st)

DecodeTag(t, st) ==
    IF ~t.ok THEN [ok |-> FALSE, err |-> Truncated, handled |-> st.handled]
    ELSE IF t.val[1] = PART_END
    THEN [ok |-> TRUE, val |-> NodeInfo(st.peers, st.claims, st.peer_timeout),
          handled |-> st.handled]
    ELSE DecodeNext(DecodePart(t.val[1], t.r, st), st)

DecodeLoop(r, st) == DecodeTag(ReadTag(r), st)

decode_internal(bytes) ==
    DecodeLoop(Reader(bytes), [peers |-> <<>>, claims |-> <<>>, peer_timeout |-> None,
                               handled |-> <<>>])

\* the map_err of NodeInfo::decode
TooShort == "Input data too short"

\* a variant that hands the error of decode_internal on
map_err_Keep(i) == IF i.ok THEN [ok |-> TRUE, val |-> i.val] ELSE [ok |-> FALSE, err |-> i.err]

map_err(i) == IF i.ok THEN [ok |-> TRUE, val |-> i.val] ELSE [ok |-> FALSE, err |-> TooShort]

decode(bytes) == map_err(decode_internal(bytes))

----------------------------------------------------------------------------
(* The values the runs draw their inputs from *)

IdA == [i \in 1..NODE_ID_BYTES |-> 160 + i]
IdChoices == {None, Some(IdA)}

Ip6A == [i \in 1..16 |-> 32 + i]
Ip6B == [i \in 1..16 |-> 64 + i]
AddrChoices ==
    {V4(<<192, 168, 1, 1>>, 4660), V4(<<10, 0, 0, 2>>, 80),
     V6(Ip6A, 4660, 0, 0), V6(Ip6B, 443, 1, 3)}
WireAddrChoices == {V4(<<192, 168, 1, 1>>, 4660), V6(Ip6A, 4660, 0, 0)}

RangeChoices ==
    {Range(Address(<<10, 0, 0, 0>>, 4), 8), Range(Address(<<1, 2, 3, 4, 5, 6>>, 6), 48)}
TimeoutChoices == {300}
\* what a reused MsgBuffer holds before encode
StaleBytes == {238}

NoTamper == [kind |-> "none"]
NoResult == [ok |-> FALSE, err |-> "none"]
NoInternal == [ok |-> FALSE, err |-> "none", handled |-> <<>>]
EmptyNode == NodeInfo(<<>>, <<>>, None)
IdleCursor == Cursor(<<>>)

RECURSIVE CountAddrs(_)
CountAddrs(peers) ==
    IF Len(peers) = 0 THEN 0 ELSE Len(Head(peers).addrs) + CountAddrs(Tail(peers))

----------------------------------------------------------------------------
(* Building a NodeInfo, encoding it, decoding the message *)

CodecIdle == /\ cursor = IdleCursor /\ parts = <<>> /\ data = <<>> /\ parsed = NoResult

InitCodec ==
    /\ node = EmptyNode
    /\ buffer \in {MsgBuffer(BufCap, s) : s \in StaleBytes}
    /\ wire = <<>>
    /\ tamper = NoTamper
    /\ internal = NoInternal
    /\ result = NoResult
    /\ pc = "build"
    /\ CodecIdle

Init == InitCodec

AddPeer(maxPeers) ==
    /\ pc = "build"
    /\ Len(node.peers) < maxPeers
    /\ \E id \in IdChoices : node' = [node EXCEPT !.peers = Append(@, PeerInfo(id, <<>>))]
    /\ UNCHANGED <<buffer, wire, tamper, internal, result, pc, cursor, parts, data, parsed>>

AddAddr(choices, maxAddrs) ==
    /\ pc = "build"
    /\ Len(node.peers) > 0
    /\ CountAddrs(node.peers) < maxAddrs
    /\ \E a \in choices :
          node' = [node EXCEPT !.peers[Len(node.peers)].addrs = Append(@, a)]
    /\ UNCHANGED <<buffer, wire, tamper, internal, result, pc, cursor, parts, data, parsed>>

AddClaim(maxClaims) ==
    /\ pc = "build"
    /\ Len(node.claims) < maxClaims
    /\ \E c \in RangeChoices : node' = [node EXCEPT !.claims = Append(@, c)]
    /\ UNCHANGED <<buffer, wire, tamper, internal, result, pc, cursor, parts, data, parsed>>

SetTimeout ==
    /\ pc = "build"
    /\ node.peer_timeout = None
    /\ \E t \in TimeoutChoices : node' = [node EXCEPT !.peer_timeout = Some(t)]
    /\ UNCHANGED <<buffer, wire, tamper, internal, result, pc, cursor, parts, data, parsed>>

\* NodeInfo::encode: encode_internal(buffer).expect("Buffer too small")
Encode ==
    /\ pc = "build"
    /\ \E e \in {encode_internal(node, buffer)} :
          /\ buffer' = e.buffer
          /\ pc' = IF e.ok THEN "encoded" ELSE "panic"
    /\ UNCHANGED <<node, wire, tamper, internal, result, cursor, parts, data, parsed>>

\* NodeInfo::decode on the bytes `input`
DecodeInput(input, how) ==
    /\ wire' = input
    /\ tamper' = how
    /\ internal' = decode_internal(input)
    /\ result' = map_err(internal')
    /\ pc' = "decoded"
    /\ UNCHANGED <<node, buffer, cursor, parts, data, parsed>>

\* NodeInfo::decode on the encoded message
Decode ==
    /\ pc = "encoded"
    /\ DecodeInput(Message(buffer), NoTamper)

Next ==
    \/ AddPeer(MaxPeers)
    \/ AddAddr(AddrChoices, MaxAddrs)
    \/ AddClaim(MaxClaims)
    \/ SetTimeout
    \/ Encode
    \/ Decode

Spec == Init /\ [][Next]_vars

----------------------------------------------------------------------------
(* Decoding inputs derived from an encoded message *)

\* offsets of the tags of a message, the terminator's last
RECURSIVE PartOffsets(_, _)
PartOffsets(m, o) ==
    IF o >= Len(m) \/ m[o + 1] = PART_END THEN <<o>>
    ELSE <<o>> \o PartOffsets(m, o + 3 + FromU16BE(SubSeq(m, o + 2, o + 3)))

Range1(sq) == {sq[i] : i \in 1..Len(sq)}
Insert(m, o, bytes) == SubSeq(m, 1, o) \o bytes \o SubSeq(m, o + 1, Len(m))

UnknownTags == {4, 255}
BodyBytes == {0, 1}
JunkBytes == {0, 1, 7}
BadLengths == {17, 255}

\* a proper non-empty prefix of the message
DecodeTruncated ==
    /\ pc = "encoded"
    /\ LET m == Message(buffer) IN
       \E n \in 1..(Len(m) - 1) :
          DecodeInput(SubSeq(m, 1, n), [kind |-> "prefix", orig |-> m, n |-> n])

\* the message with a part of an unrecognized tag inserted before a tag
DecodeUnknown ==
    /\ pc = "encoded"
    /\ LET m == Message(buffer) IN
       \E o \in Range1(PartOffsets(m, 0)), tag \in UnknownTags,
          len \in 0..MaxUnknownLen, b \in BodyBytes :
          /\ len = 0 => b = 0
          /\ DecodeInput(Insert(m, o, <<tag>> \o U16BE(len) \o Fill(len, b)),
                         [kind |-> "unknown", orig |-> m, at |-> o, tag |-> tag, len |-> len])

\* the message with its PEER_TIMEOUT part given a longer declared length and
\* that many junk bytes after the value, and put before any tag
DecodePadded ==
    /\ pc = "encoded"
    /\ IsSome(node.peer_timeout)
    /\ LET m == Message(buffer)
           base == SubSeq(m, 1, Len(m) - 6) \o <<PART_END>>
           value == U16BE(Unwrap(node.peer_timeout))
       IN  \E o \in Range1(PartOffsets(base, 0)), k \in 1..MaxJunk, j \in JunkBytes :
              DecodeInput(
                  Insert(base, o, <<PART_PEER_TIMEOUT>> \o U16BE(2 + k) \o value \o Fill(k, j)),
                  [kind |-> "padded", at |-> o, junk |-> k,
                   exact |-> Insert(base, o, <<PART_PEER_TIMEOUT>> \o U16BE(2) \o value)])

\* the message with the length byte of its first range record made invalid
DecodeBadClaim ==
    /\ pc = "encoded"
    /\ Len(node.claims) > 0
    /\ LET m == Message(buffer)
           o == PartOffsets(m, 0)[2] + 3
       IN  \E v \in BadLengths :
              DecodeInput([m EXCEPT ![o + 1] = v], [kind |-> "badclaim", orig |-> m])

NextWire ==
    \/ AddPeer(WirePeers)
    \/ AddAddr(WireAddrChoices, WireAddrs)
    \/ AddClaim(WireClaims)
    \/ SetTimeout
    \/ Encode
    \/ Decode
    \/ DecodeTruncated
    \/ DecodeUnknown
    \/ DecodePadded
    \/ DecodeBadClaim

SpecWire == Init /\ [][NextWire]_vars

----------------------------------------------------------------------------
(* Properties of the codec *)

Decoded(kind) == pc = "decoded" /\ tamper.kind = kind
V4s(p) == SelectSeq(p.addrs, IsV4)
V6s(p) == SelectSeq(p.addrs, IsV6)
Peers(nd) == Range1(nd.peers)

\* at most 7 addresses of each family per peer
Fits7(nd) == \A p \in Peers(nd) : Len(V4s(p)) <= 7 /\ Len(V6s(p)) <= 7
\* every peer lists its IPv6 addresses before its IPv4 addresses
V6First(nd) == \A p \in Peers(nd) : p.addrs = V6s(p) \o V4s(p)
\* every IPv6 address has flowinfo 0 and scope id 0
PlainV6(nd) ==
    \A p \in Peers(nd) : \A a \in Range1(V6s(p)) : a.flowinfo = 0 /\ a.scope_id = 0

\* C1 as stated: decode(encode(x)) = x for every x with at most 7 addresses
\* of each family per peer, whatever the order of a peer's addresses.
C1_RoundTripAnyOrder ==
    (Decoded("none") /\ Fits7(node)) => (result.ok /\ result.val = node)

\* C1 amended: decode(encode(x)) = x for every x with at most 7 addresses of
\* each family per peer whose peers list their IPv6 addresses before their
\* IPv4 addresses and whose IPv6 addresses have flowinfo 0 and scope id 0.
C1_RoundTrip ==
    (Decoded("none") /\ Fits7(node) /\ V6First(node) /\ PlainV6(node))
        => (result.ok /\ result.val = node)

C1_Witness ==
    /\ Decoded("none") /\ Fits7(node) /\ V6First(node) /\ PlainV6(node)
    /\ \E p \in Peers(node) : IsSome(p.node_id) /\ Len(V6s(p)) > 0 /\ Len(V4s(p)) > 0
    /\ Len(node.claims) > 0
    /\ IsSome(node.peer_timeout)
    /\ result.ok

Min7(n) == IF n > 7 THEN 7 ELSE n
PeerSize(p) ==
    1 + (IF IsSome(p.node_id) THEN NODE_ID_BYTES ELSE 0)
      + 18 * Min7(Len(V6s(p))) + 6 * Min7(Len(V4s(p)))
RECURSIVE PeersSize(_)
PeersSize(peers) == IF Len(peers) = 0 THEN 0 ELSE PeerSize(Head(peers)) + PeersSize(Tail(peers))
RECURSIVE RecordsInOrder(_)
RecordsInOrder(claims) ==
    IF Len(claims) = 0 THEN <<>> ELSE RangeBytes(Head(claims)) \o RecordsInOrder(Tail(claims))
TimeoutPart(nd) ==
    IF IsSome(nd.peer_timeout)
    THEN <<PART_PEER_TIMEOUT, 0, 2>> \o U16BE(Unwrap(nd.peer_timeout)) ELSE <<>>

LayoutOf(m, l1, cb, tp) ==
    /\ Len(m) = 3 + l1 + 3 + Len(cb) + Len(tp) + 1
    /\ m[1] = PART_PEERS
    /\ SubSeq(m, 2, 3) = U16BE(l1)
    /\ m[l1 + 4] = PART_CLAIMS
    /\ SubSeq(m, l1 + 5, l1 + 6) = U16BE(Len(cb))
    /\ SubSeq(m, l1 + 7, l1 + 6 + Len(cb)) = cb
    /\ SubSeq(m, l1 + 7 + Len(cb), l1 + 6 + Len(cb) + Len(tp)) = tp
    /\ m[Len(m)] = PART_END

\* C9: encode writes one PEERS part, one CLAIMS part with the claims in list
\* order, a PEER_TIMEOUT part iff peer_timeout is present, then the
\* terminator as the last byte, the two lists written even when empty; the
\* logical length is the number of bytes written, terminator included, and
\* nothing is written beyond it.
C9_EncodeLayout ==
    pc \in {"encoded", "decoded"} =>
        /\ LayoutOf(Message(buffer), PeersSize(node.peers), RecordsInOrder(node.claims),
                    TimeoutPart(node))
        /\ \A i \in (buffer.length + 1)..Len(buffer.data) : buffer.data[i] \in StaleBytes

C9_Witness ==
    /\ pc = "encoded"
    /\ IsSome(node.peer_timeout)
    /\ Len(node.claims) = 2 /\ node.claims[1] # node.claims[2]
    /\ Len(node.peers) > 0
    /\ buffer.length > 0

\* C2 as stated: after every handled part the next tag is read exactly the
\* declared length after the part's length field, and a PEER_TIMEOUT part
\* with junk after its value is accepted and decodes like the part of
\* length 2.
C2_ResumesAfterDeclaredLength ==
    pc = "decoded" =>
        /\ \A h \in Range1(internal.handled) : h.next = h.body + h.len
        /\ tamper.kind = "padded" => (result.ok /\ result = decode(tamper.exact))

C4_TruncatedInput == Decoded("prefix") => result = Err(TooShort)

C4_Witness ==
    /\ Decoded("prefix")
    /\ tamper.n = Len(tamper.orig) - 1
    /\ Len(node.peers) > 0 /\ Len(node.claims) > 0 /\ IsSome(node.peer_timeout)
    /\ ~result.ok

\* C5: a part of an unrecognized tag inserted before any tag of an encoded
\* message is skipped, exactly its declared length, and the message decodes
\* to what it decodes to without the part.
C5_UnknownSkipped ==
    Decoded("unknown") =>
        /\ result.ok
        /\ result = decode(tamper.orig)
        /\ \E h \in Range1(internal.handled) :
              /\ h.part = tamper.tag /\ h.body = tamper.at + 3
              /\ h.len = tamper.len /\ h.next = h.body + tamper.len

C5_Witness ==
    /\ Decoded("unknown")
    /\ tamper.len = 2 /\ tamper.at > 0 /\ tamper.at < Len(tamper.orig) - 1
    /\ result.ok /\ Len(result.val.peers) > 0 /\ Len(result.val.claims) > 0

----------------------------------------------------------------------------
(* One peer with more addresses of a family than the flags byte can count *)

ScopeChoices == {0, 3}
Ip6At(k) == [i \in 1..16 |-> IF i = 16 THEN k ELSE 32 + i]
\* the addresses a peer may hold at place k of its list
LongChoices(k) ==
    {V4(<<10, 0, 0, k>>, 1000 + k)} \cup {V6(Ip6At(k), 2000 + k, 0, s) : s \in ScopeChoices}

InitTrunc ==
    /\ node \in {NodeInfo(<<PeerInfo(id, <<>>)>>, <<>>, None) : id \in IdChoices}
    /\ buffer = MsgBuffer(BufCap, 238)
    /\ wire = <<>>
    /\ tamper = NoTamper
    /\ internal = NoInternal
    /\ result = NoResult
    /\ pc = "build"
    /\ CodecIdle

\* one more address for the peer; its IPv6 addresses share their scope id
AddLongAddr ==
    /\ pc = "build"
    /\ Len(node.peers[1].addrs) < MaxLongAddrs
    /\ \E a \in LongChoices(Len(node.peers[1].addrs) + 1) :
          /\ IsV6(a) => \A b \in Range1(V6s(node.peers[1])) : b.scope_id = a.scope_id
          /\ node' = [node EXCEPT !.peers[1].addrs = Append(@, a)]
    /\ UNCHANGED <<buffer, wire, tamper, internal, result, pc, cursor, parts, data, parsed>>

NextTrunc ==
    \/ AddLongAddr
    \/ Encode
    \/ Decode

SpecTrunc == InitTrunc /\ [][NextTrunc]_vars

First7(l) == SubSeq(l, 1, Min7(Len(l)))
RECURSIVE AsDecoded(_)
\* IPv6 addresses as decode builds them: flowinfo 0, scope id 0
AsDecoded(l) ==
    IF Len(l) = 0 THEN <<>>
    ELSE <<V6(Head(l).ip, Head(l).port, 0, 0)>> \o AsDecoded(Tail(l))
\* offset of the flags byte of peer i in the message
FlagsAt(nd, i) == 3 + PeersSize(SubSeq(nd.peers, 1, i - 1))
FlagsOk(flags, p) ==
    /\ num_ipv4_addrs(flags) = Min7(Len(V4s(p)))
    /\ num_ipv6_addrs(flags) = Min7(Len(V6s(p)))
    /\ has_node_id(flags) = IsSome(p.node_id)
    /\ (flags \div 64) % 2 = 0
Over7(p) == Len(V4s(p)) > 7 \/ Len(V6s(p)) > 7

\* C6 as stated: a peer with more than 7 addresses of a family decodes to
\* exactly the first 7 addresses of that family in their order, and to all
\* of the other family's when they are 7 or fewer; the counts of the flags
\* byte stay within their 3 bits.
C6_First7Exactly ==
    Decoded("none") =>
        \A i \in 1..Len(node.peers) :
            Over7(node.peers[i]) =>
                /\ result.ok
                /\ Len(result.val.peers) = Len(node.peers)
                /\ V4s(result.val.peers[i]) = First7(V4s(node.peers[i]))
                /\ V6s(result.val.peers[i]) = First7(V6s(node.peers[i]))
                /\ FlagsOk(wire[FlagsAt(node, i) + 1], node.peers[i])

\* C6 amended: the decoded peer holds the first 7 addresses of each family
\* in their order, the IPv6 ones with flowinfo 0 and scope id 0 whatever
\* they were; the counts of the flags byte stay within their 3 bits.
C6_First7 ==
    Decoded("none") =>
        \A i \in 1..Len(node.peers) :
            Over7(node.peers[i]) =>
                /\ result.ok
                /\ Len(result.val.peers) = Len(node.peers)
                /\ V4s(result.val.peers[i]) = First7(V4s(node.peers[i]))
                /\ V6s(result.val.peers[i]) = AsDecoded(First7(V6s(node.peers[i])))
                /\ result.val.peers[i].addrs
                      = V6s(result.val.peers[i]) \o V4s(result.val.peers[i])
                /\ result.val.peers[i].node_id = node.peers[i].node_id
                /\ FlagsOk(wire[FlagsAt(node, i) + 1], node.peers[i])

C6_Witness ==
    /\ Decoded("none")
    /\ \E p \in Peers(node) :
          /\ Len(V6s(p)) > 7 /\ Len(V4s(p)) > 0 /\ IsV4(p.addrs[2])
          /\ IsSome(p.node_id)
    /\ result.ok

----------------------------------------------------------------------------
(* encode_part on a slice that holds a body longer than a u16 counts *)

PartCap == 65536 + PartSlack
PartTags == {PART_PEERS, PART_PEER_TIMEOUT}
BodySizes == {0, 2, 256, 65535, 65536, 65537}

\* The cursor after encode_part has run for each of ps in turn on a
\* slice of PartCap stale bytes, each body writer writing n bytes.  The slice
\* is this value's buf; the state keeps the parts, the position and the
\* failure only.
RECURSIVE PartsCursor(_)
PartsCursor(ps) ==
    IF Len(ps) = 0 THEN Cursor(Fill(PartCap, 238))
    ELSE encode_part(PartsCursor(SubSeq(ps, 1, Len(ps) - 1)), ps[Len(ps)].tag,
                     BytesWriter(ps[Len(ps)].n, 16 + ps[Len(ps)].tag))

Position(c) == [pos |-> c.pos, err |-> c.err]

InitPart ==
    /\ cursor = Position(PartsCursor(<<>>))
    /\ parts = <<>>
    /\ pc = "parts"
    /\ node = EmptyNode
    /\ buffer = MsgBuffer(0, 0)
    /\ wire = <<>>
    /\ tamper = NoTamper
    /\ internal = NoInternal
    /\ result = NoResult
    /\ data = <<>>
    /\ parsed = NoResult

\* encode_part(cursor, tag, f) with a body writer f that writes n bytes;
\* the caller panics on the error of a slice that is too small
WritePart ==
    /\ pc = "parts"
    /\ Len(parts) < MaxParts
    /\ \E tag \in PartTags, n \in BodySizes :
          parts' = Append(parts, [tag |-> tag, start |-> cursor.pos, n |-> n])
    /\ cursor' = Position(PartsCursor(parts'))
    /\ pc' = IF cursor'.err THEN "panic" ELSE "parts"
    /\ UNCHANGED <<node, buffer, wire, tamper, internal, result, data, parsed>>

NextPart == WritePart

SpecPart == InitPart /\ [][NextPart]_vars

\* part i lies in the slice sl as written: its tag, its body untouched, and
\* the write position of the cursor at the end of the last body
PartIntact(sl, i) ==
    /\ sl[parts[i].start + 1] = parts[i].tag
    /\ SubSeq(sl, parts[i].start + 4, parts[i].start + 3 + parts[i].n)
          = Fill(parts[i].n, 16 + parts[i].tag)
    /\ i = Len(parts) => cursor.pos = parts[i].start + 3 + parts[i].n
LengthField(sl, i) == FromU16BE(SubSeq(sl, parts[i].start + 2, parts[i].start + 3))
LengthsAre(sl, ns) == \A i \in 1..Len(parts) : PartIntact(sl, i) /\ LengthField(sl, i) = ns[i]

\* C10 as stated: the length field of every part written equals the number
\* of body bytes, for every body the slice holds, and the write position
\* ends after the body with no body byte overwritten.
C10_LengthIsBodySize ==
    pc = "parts" => LengthsAre(PartsCursor(parts).buf, [i \in 1..Len(parts) |-> parts[i].n])

\* C10 amended: the length field holds the number of body bytes modulo
\* 65536, which is the number of body bytes up to 65535 of them; the write
\* position ends after the body with no body byte overwritten.
C10_LengthIsBodySizeMod ==
    pc = "parts" =>
        LengthsAre(PartsCursor(parts).buf, [i \in 1..Len(parts) |-> parts[i].n % 65536])

C10_Witness ==
    /\ pc = "parts"
    /\ Len(parts) = 2
    /\ parts[1].n = 65537
    /\ parts[2].n = 2
    /\ cursor.pos = 65537 + 3 + 2 + 3

----------------------------------------------------------------------------
(* payload.rs: Frame::parse and Packet::parse *)

\* Ok((src, dst)) of two results of read_from_fixed, with the `?` of each
Pair(src, dst) ==
    IF ~src.ok THEN Err(src.err)
    ELSE IF ~dst.ok THEN Err(dst.err)
    ELSE [ok |-> TRUE, src |-> src.val, dst |-> dst.val]

\* src[0] = data[pos]; src[1] = data[pos + 1]; src[2..8].copy_from_slice(mac)
VlanAddress(d, pos, mac) == [data |-> <<d[pos + 1], d[pos + 2]>> \o mac \o Fill(8, 0), len |-> 8]

\* the branch of a frame with the tag marker, pos after the marker
FrameVlan_NoLengthCheck(d, pos, src_data, dst_data) ==
    [ok |-> TRUE, src |-> VlanAddress(d \o <<0, 0>>, pos, src_data),
     dst |-> VlanAddress(d \o <<0, 0>>, pos, dst_data)]

FrameVlan(d, pos, src_data, dst_data) ==
    IF Len(d) < pos + 2 THEN Err("Vlan frame is too short")
    ELSE [ok |-> TRUE, src |-> VlanAddress(d, pos, src_data), dst |-> VlanAddress(d, pos, dst_data)]

\* Frame::parse after the length check, pos after the two addresses
FrameAddrs(d, pos, src_data, dst_data) ==
    IF d[pos + 1] = 129 /\ d[pos + 2] = 0
    THEN FrameVlan(d, pos + 2, src_data, dst_data)
    ELSE Pair(read_from_fixed(src_data, 6), read_from_fixed(dst_data, 6))

Frame_parse(d) ==
    IF Len(d) < 14 THEN Err("Frame is too short")
    ELSE FrameAddrs(d, 12, SubSeq(d, 7, 12), SubSeq(d, 1, 6))

\* let version = data[0] >> 4; the variant takes the low nibble
version_LowNibble(d) == d[1] % 16

version(d) == d[1] \div 16

Packet_parse(d) ==
    IF Len(d) = 0 THEN Err("Empty header")
    ELSE CASE version(d) = 4 ->
                IF Len(d) < 20 THEN Err("Truncated IPv4 header")
                ELSE Pair(read_from_fixed(SubSeq(d, 13, Len(d)), 4),
                          read_from_fixed(SubSeq(d, 17, Len(d)), 4))
           [] version(d) = 6 ->
                IF Len(d) < 40 THEN Err("Truncated IPv6 header")
                ELSE Pair(read_from_fixed(SubSeq(d, 9, Len(d)), 16),
                          read_from_fixed(SubSeq(d, 25, Len(d)), 16))
           [] OTHER -> Err("Invalid IP protocol version")

----------------------------------------------------------------------------
(* The dissectors on frames and packets *)

Macs == {<<6, 5, 4, 3, 2, 1>>, <<1, 2, 3, 129, 0, 6>>}
TailBytes == {0, 8, 129}
Prefixes(sq) == {SubSeq(sq, 1, n) : n \in 0..Len(sq)}
\* two MAC addresses and up to MaxFrameTail bytes after them, and every cut of it
FrameInputs ==
    UNION {Prefixes(dst \o src \o tail) :
              dst \in Macs, src \in Macs, tail \in [1..MaxFrameTail -> TailBytes]}

FirstBytes == {0, 32, 64, 69, 70, 79, 96, 100, 106, 244}
Seeds == {0, 101}
\* a first byte and up to MaxPacketLen - 1 bytes that differ from place to place
PacketInputs ==
    {<<>>} \cup {[i \in 1..n |-> IF i = 1 THEN b ELSE (7 * i + seed) % 256] :
                    b \in FirstBytes, seed \in Seeds, n \in 1..MaxPacketLen}

InitPayload ==
    /\ data \in FrameInputs \cup PacketInputs
    /\ parsed = NoResult
    /\ pc = "input"
    /\ node = EmptyNode
    /\ buffer = MsgBuffer(0, 0)
    /\ wire = <<>>
    /\ tamper = NoTamper
    /\ internal = NoInternal
    /\ result = NoResult
    /\ cursor = IdleCursor
    /\ parts = <<>>

ParseFrame ==
    /\ pc = "input"
    /\ parsed' = Frame_parse(data)
    /\ pc' = "frame"
    /\ UNCHANGED <<node, buffer, wire, tamper, internal, result, cursor, parts, data>>

ParsePacket ==
    /\ pc = "input"
    /\ parsed' = Packet_parse(data)
    /\ pc' = "packet"
    /\ UNCHANGED <<node, buffer, wire, tamper, internal, result, cursor, parts, data>>

NextPayload ==
    \/ ParseFrame
    \/ ParsePacket

SpecPayload == InitPayload /\ [][NextPayload]_vars

\* an address of length len whose bytes are bytes, all bytes after them zero
IsAddress(a, bytes, len) ==
    /\ a.len = len
    /\ Len(a.data) = 16
    /\ SubSeq(a.data, 1, len) = bytes
    /\ \A i \in (len + 1)..16 : a.data[i] = 0
Tagged(d) == d[13] = 129 /\ d[14] = 0

\* C7: Frame::parse fails on fewer than 14 bytes; without the tag marker at
\* bytes 12..14 it returns bytes 6..12 and 0..6 as source and destination
\* of length 6; with the marker it fails on fewer than 16 bytes and else
\* returns bytes 14..16 followed by the MAC bytes, length 8, for both; all
\* bytes beyond the length are zero and later bytes change nothing.
C7_FrameParse ==
    pc = "frame" =>
        /\ Len(data) < 14 => ~parsed.ok
        /\ (Len(data) >= 14 /\ ~Tagged(data)) =>
              /\ parsed.ok
              /\ IsAddress(parsed.src, SubSeq(data, 7, 12), 6)
              /\ IsAddress(parsed.dst, SubSeq(data, 1, 6), 6)
        /\ (Len(data) >= 14 /\ Tagged(data) /\ Len(data) < 16) => ~parsed.ok
        /\ (Len(data) >= 16 /\ Tagged(data)) =>
              /\ parsed.ok
              /\ IsAddress(parsed.src, SubSeq(data, 15, 16) \o SubSeq(data, 7, 12), 8)
              /\ IsAddress(parsed.dst, SubSeq(data, 15, 16) \o SubSeq(data, 1, 6), 8)

\* a frame with a tag and a second, nested tag after it
C7_Witness ==
    /\ pc = "frame"
    /\ Len(data) >= 18
    /\ Tagged(data)
    /\ data[17] = 129 /\ data[18] = 0
    /\ data[15] # 0
    /\ SubSeq(data, 1, 6) # SubSeq(data, 7, 12)
    /\ parsed.ok /\ parsed.src.len = 8

\* C8: Packet::parse fails on the empty input; with version 4 it returns
\* bytes 12..16 and 16..20 as addresses of length 4 when there are at least
\* 20 bytes and fails otherwise; with version 6 it returns bytes 8..24 and
\* 24..40 as addresses of length 16 when there are at least 40 bytes and
\* fails otherwise; every other version fails; nothing else decides.
C8_PacketParse ==
    pc = "packet" =>
        /\ Len(data) = 0 => ~parsed.ok
        /\ Len(data) > 0 =>
              /\ (data[1] \div 16 = 4 /\ Len(data) >= 20) =>
                    /\ parsed.ok
                    /\ IsAddress(parsed.src, SubSeq(data, 13, 16), 4)
                    /\ IsAddress(parsed.dst, SubSeq(data, 17, 20), 4)
              /\ (data[1] \div 16 = 4 /\ Len(data) < 20) => ~parsed.ok
              /\ (data[1] \div 16 = 6 /\ Len(data) >= 40) =>
                    /\ parsed.ok
                    /\ IsAddress(parsed.src, SubSeq(data, 9, 24), 16)
                    /\ IsAddress(parsed.dst, SubSeq(data, 25, 40), 16)
              /\ (data[1] \div 16 = 6 /\ Len(data) < 40) => ~parsed.ok
              /\ data[1] \div 16 \notin {4, 6} => ~parsed.ok

\* a version 6 packet of 41 bytes with a low nibble that is a version
C8_Witness ==
    /\ pc = "packet"
    /\ Len(data) = 41
    /\ data[1] = 100
    /\ parsed.ok /\ parsed.src.len = 16 /\ parsed.src # parsed.dst

====
